---- MODULE Spec2Model ----
(***************************************************************************)
(* Model of gpu-count.py: login, get_job_information, consolidate_jobs,    *)
(* save_to_csv, create_html_graph and main.                                *)
(*                                                                         *)
(* Python floats are binary64.  The model keeps the values exact on the    *)
(* part of binary64 it uses:                                               *)
(*   [k |-> "fin", n |-> i]  the double i/8, |i| small (sums are exact)    *)
(*   [k |-> "big", n |-> s]  the double s * 1e308, s in {1, -1}            *)
(*   [k |-> "inf", n |-> s]  s * infinity                                  *)
(*   [k |-> "nan", n |-> 0]  not a number                                  *)
(* round(x, 2) of a finite small double is kept in hundredths:             *)
(*   [k |-> "dec", n |-> h]  the double nearest to h/100                   *)
(***************************************************************************)
EXTENDS Integers, Sequences, FiniteSets, TLC

\* Longest bare job list the jobs endpoint answers with.
MaxJobs == 3

\* Longest job list inside an object-shaped answer {"jobs": [...]}.
MaxObjJobs == 1

\* A key that a JSON object does not have.
Absent == "<absent>"

----------------------------------------------------------------------------
\* Floating point (binary64 on the values described above).

Fin(i) == [k |-> "fin", n |-> i]
Big(s) == [k |-> "big", n |-> s]
Inf(s) == [k |-> "inf", n |-> s]
NaN == [k |-> "nan", n |-> 0]

\* x + y in binary64: small multiples of 1/8 add exactly, 1e308 absorbs a
\* small addend, 1e308 + 1e308 overflows to infinity, 1e308 - 1e308 = 0.0.
FAdd(x, y) ==
    CASE x.k = "nan" \/ y.k = "nan" -> NaN
      [] x.k = "inf" /\ y.k = "inf" -> IF x.n = y.n THEN x ELSE NaN
      [] x.k = "inf" -> x
      [] y.k = "inf" -> y
      [] x.k = "big" /\ y.k = "big" -> IF x.n = y.n THEN Inf(x.n) ELSE Fin(0)
      [] x.k = "big" -> x
      [] y.k = "big" -> y
      [] OTHER -> Fin(x.n + y.n)

\* The integer nearest to a/2, ties to the even one.
HalfEven(a) ==
    LET q == a \div 2
    IN  IF a % 2 = 0 THEN q
        ELSE IF q % 2 = 0 THEN q ELSE q + 1

\* round(x, 2): correctly rounded, half to even, on the exact value of the
\* double; i/8 = (25 * i / 2) hundredths.  Huge and non-finite values are
\* returned unchanged.
Round2(x) ==
    IF x.k = "fin" THEN [k |-> "dec", n |-> HalfEven(25 * x.n)] ELSE x

\* float(s) for the text of a number or of a string.
ParseText(s) ==
    CASE s = "0" -> Fin(0)
      [] s = "1" -> Fin(8)
      [] s = "1.125" -> Fin(9)
      [] s = "-1" -> Fin(-8)
      [] s = "1e308" -> Big(1)
      [] s = "-1e308" -> Big(-1)
      [] OTHER -> [k |-> "ValueError", n |-> 0]

\* float(gpus) for a JSON value: a number converts, a string is parsed and
\* raises ValueError when it is no number, null raises TypeError.
FloatOf(gpus) ==
    CASE gpus.t = "num" -> ParseText(gpus.v)
      [] gpus.t = "str" -> ParseText(gpus.v)
      [] OTHER -> [k |-> "TypeError", n |-> 0]

----------------------------------------------------------------------------
\* consolidate_jobs

\* Mutant: the default of the user field is the empty string.
GetUser_EmptyDefault(job) == IF job.user = Absent THEN "" ELSE job.user

\* job.get('user', 'Unknown')
GetUser(job) == IF job.user = Absent THEN "Unknown" ELSE job.user

\* job.get('totalRequestedGPUs', '0')
GetGpus(job) ==
    IF job.totalRequestedGPUs.t = Absent THEN [t |-> "str", v |-> "0"]
    ELSE job.totalRequestedGPUs

\* Index of user in the dict (kept in insertion order), 0 when it has no entry.
IndexOf(user_jobs, user) ==
    IF \E i \in 1..Len(user_jobs) : user_jobs[i].user = user
    THEN CHOOSE i \in 1..Len(user_jobs) : user_jobs[i].user = user
    ELSE 0

\* Mutant: the sum is assigned (=) where the code adds (+=).
Accumulate_Overwrite(user_jobs, user, gpus) ==
    LET i == IndexOf(user_jobs, user)
    IN  IF i = 0
        THEN Append(user_jobs,
                    [user |-> user, totalRequestedGPUs |-> gpus, jobCount |-> 1])
        ELSE [user_jobs EXCEPT
                 ![i].totalRequestedGPUs = gpus,
                 ![i].jobCount = @ + 1]

\* user_jobs[user]['totalRequestedGPUs'] += gpus; user_jobs[user]['jobCount'] += 1
\* on a defaultdict whose fresh entry is {0.0, 0}.
Accumulate(user_jobs, user, gpus) ==
    LET i == IndexOf(user_jobs, user)
    IN  IF i = 0
        THEN Append(user_jobs,
                    [user |-> user,
                     totalRequestedGPUs |-> FAdd(Fin(0), gpus),
                     jobCount |-> 0 + 1])
        ELSE [user_jobs EXCEPT
                 ![i].totalRequestedGPUs = FAdd(@, gpus),
                 ![i].jobCount = @ + 1]

\* Mutant: an invalid value is replaced by the sentinel -1.0 instead of 0.0.
LoopBody_SentinelMinusOne(acc, job) ==
    LET user == GetUser(job)
        f == FloatOf(GetGpus(job))
    IN  CASE f.k = "TypeError" ->
               [acc EXCEPT !.raised = "TypeError"]
          [] f.k = "ValueError" ->
               [acc EXCEPT
                  !.user_jobs = Accumulate(@, user, Fin(-8)),
                  !.warnings = Append(@, <<"Warning: Invalid GPU value", user>>)]
          [] OTHER ->
               [acc EXCEPT !.user_jobs = Accumulate(@, user, f)]

\* One pass of the loop body: the float() conversion with its except clause.
\* acc = [raised, user_jobs, warnings].
LoopBody(acc, job) ==
    LET user == GetUser(job)
        f == FloatOf(GetGpus(job))
    IN  CASE f.k = "TypeError" ->
               [acc EXCEPT !.raised = "TypeError"]
          [] f.k = "ValueError" ->
               [acc EXCEPT
                  !.user_jobs = Accumulate(@, user, Fin(0)),
                  !.warnings = Append(@, <<"Warning: Invalid GPU value", user>>)]
          [] OTHER ->
               [acc EXCEPT !.user_jobs = Accumulate(@, user, f)]

RECURSIVE Loop(_, _, _)
Loop(acc, jobs, i) ==
    IF i > Len(jobs) \/ acc.raised # "none" THEN acc
    ELSE Loop(LoopBody(acc, jobs[i]), jobs, i + 1)

\* Mutant: the sums are returned without rounding.
Rows_Unrounded(user_jobs) ==
    [i \in 1..Len(user_jobs) |->
        [user |-> user_jobs[i].user,
         totalRequestedGPUs |-> user_jobs[i].totalRequestedGPUs,
         jobCount |-> user_jobs[i].jobCount]]

\* The returned list: one row per dict entry, the sum rounded.
Rows(user_jobs) ==
    [i \in 1..Len(user_jobs) |->
        [user |-> user_jobs[i].user,
         totalRequestedGPUs |-> Round2(user_jobs[i].totalRequestedGPUs),
         jobCount |-> user_jobs[i].jobCount]]

\* consolidate_jobs(jobs): [raised, rows, warnings]; rows is the return value
\* when nothing was raised.
consolidate_jobs(jobs) ==
    LET acc == Loop([raised |-> "none", user_jobs |-> <<>>, warnings |-> <<>>],
                    jobs, 1)
    IN  [raised |-> acc.raised,
         rows |-> IF acc.raised = "none" THEN Rows(acc.user_jobs) ELSE <<>>,
         warnings |-> acc.warnings]

----------------------------------------------------------------------------
\* The values the two endpoints can answer with.

\* user field of a job record: a name, the literal "Unknown", or no field.
Users == {"A", "Unknown", Absent}

\* totalRequestedGPUs field of a job record: a JSON number, numeric strings,
\* a string that is no number, null, or no field.
GpuValues ==
    { [t |-> "num", v |-> "1"],
      [t |-> "str", v |-> "1.125"],
      [t |-> "str", v |-> "-1"],
      [t |-> "str", v |-> "1e308"],
      [t |-> "str", v |-> "-1e308"],
      [t |-> "str", v |-> "abc"],
      [t |-> "null", v |-> ""],
      [t |-> Absent, v |-> ""] }

\* The values the jobs of the other users carry.
CommonGpuValues ==
    { [t |-> "num", v |-> "1"],
      [t |-> "str", v |-> "1.125"],
      [t |-> "str", v |-> "abc"] }

\* The job records of the answers: user "A" with every value, the jobs of
\* "Unknown" and the jobs without a user field with the common ones.
Jobs ==
    [user : {"A"}, totalRequestedGPUs : GpuValues]
      \cup [user : Users \ {"A"}, totalRequestedGPUs : CommonGpuValues]

JobLists(n) == UNION { [1..m -> Jobs] : m \in 0..n }

\* Parsed JSON bodies: Python None, a list, or a dict with a set of keys
\* (items is the value of its 'jobs' key when it has one).
None == [t |-> "None", keys |-> {}, items |-> <<>>]
JList(js) == [t |-> "list", keys |-> {}, items |-> js]
JObject(ks, js) == [t |-> "dict", keys |-> ks, items |-> js]

JobsBodies ==
    { JList(js) : js \in JobLists(MaxJobs) }
      \cup { JObject({"jobs"}, js) : js \in JobLists(MaxObjJobs) }
      \cup { JObject({}, <<>>), JObject({"message"}, <<>>) }

\* What requests.get can end with: a connection error, or a response.  A
\* 4xx/5xx answer carries an error body that is never read.
JobsResponses ==
    { [status |-> 200, body |-> b] : b \in JobsBodies }
      \cup { [status |-> 304, body |-> b] :
               b \in { JList(<<>>),
                       JList(<<[user |-> "A",
                                totalRequestedGPUs |-> [t |-> "num", v |-> "1"]]>>) } }
      \cup { [status |-> s, body |-> None] : s \in {404, 500} }

\* What requests.post can end with at the token endpoint.
LoginResponses ==
    { [status |-> 201, text |-> "{\"access_token\": \"tok\"}"],
      [status |-> 200, text |-> "{}"],
      [status |-> 204, text |-> ""],
      [status |-> 302, text |-> "moved"],
      [status |-> 401, text |-> "unauthorized"],
      [status |-> 500, text |-> "server error"] }

NoResponse == [status |-> 0, text |-> ""]
ConnectionError == [status |-> -1, text |-> ""]

----------------------------------------------------------------------------
VARIABLES
    pc,                 \* the statement main is at; "exited" when the process ended
    exitCode,           \* -1 while running, then the process's exit code
    stderr,             \* the uncaught exception that ended the process, or "none"
    stdout,             \* the printed lines, each <<text, detail>>
    token,              \* login's return value
    result,             \* get_job_information's return value
    jobs,               \* main's jobs
    consolidated_jobs,  \* main's consolidated_jobs
    csv_file,           \* audit/job_audit_<cluster>_<timestamp>.csv
    html_file,          \* audit/job_audit_<cluster>_<timestamp>.html
    r_login,            \* the answer of the token request
    r_jobs,             \* the status of the jobs request
    steps               \* history: the steps main has started, in order

vars == <<pc, exitCode, stderr, stdout, token, result, jobs, consolidated_jobs,
          csv_file, html_file, r_login, r_jobs, steps>>

NoToken == ""

\* A file that does not exist.
NoCsv == [exists |-> FALSE, complete |-> FALSE,
          content |-> [header |-> <<>>, rows |-> <<>>]]
NoHtml == [exists |-> FALSE, complete |-> FALSE,
           content |-> [labels |-> <<>>, gpus |-> <<>>, counts |-> <<>>]]

\* After parser.parse_args() accepted --cluster.
Init ==
    /\ pc = "login"
    /\ exitCode = -1
    /\ stderr = "none"
    /\ stdout = <<>>
    /\ token = NoToken
    /\ result = None
    /\ jobs = <<>>
    /\ consolidated_jobs = <<>>
    /\ csv_file = NoCsv
    /\ html_file = NoHtml
    /\ r_login = NoResponse
    /\ r_jobs = 0
    /\ steps = <<>>

\* An exception nobody catches: traceback on stderr, exit code 1.
Uncaught(exc) ==
    /\ pc' = "exited"
    /\ exitCode' = 1
    /\ stderr' = exc

\* json.loads(r.text)['access_token']
AccessToken(text) ==
    CASE text = "{\"access_token\": \"tok\"}" -> "tok"
      [] text = "{}" -> "KeyError"
      [] OTHER -> "JSONDecodeError"

\* Mutant: every status below 400 counts as a success.
IsSuccess_Below400(status) == status < 400

\* r.status_code // 100 == 2
IsSuccess(status) == status \div 100 = 2

\* token = login()
Login ==
    /\ pc = "login"
    /\ steps' = Append(steps, "authenticate")
    /\ \E r \in LoginResponses \cup {ConnectionError} :
         /\ r_login' = r
         /\ IF r = ConnectionError
            THEN /\ Uncaught("ConnectionError")
                 /\ UNCHANGED <<stdout, token>>
            ELSE IF IsSuccess(r.status)
            THEN IF AccessToken(r.text) \in {"KeyError", "JSONDecodeError"}
                 THEN /\ Uncaught(AccessToken(r.text))
                      /\ UNCHANGED <<stdout, token>>
                 ELSE /\ token' = AccessToken(r.text)
                      /\ pc' = "fetch"
                      /\ UNCHANGED <<stdout, exitCode, stderr>>
            ELSE /\ stdout' = Append(stdout, <<"Login error: ", r.text>>)
                 /\ pc' = "exited"
                 /\ exitCode' = 1
                 /\ UNCHANGED <<stderr, token>>
    /\ UNCHANGED <<result, jobs, consolidated_jobs, csv_file, html_file, r_jobs>>

\* Mutant: only a 5xx status raises.
RaisesForStatus_Only5xx(status) == status >= 500 /\ status < 600

\* r.raise_for_status(): HTTPError for a 4xx or 5xx status.
RaisesForStatus(status) == status >= 400 /\ status < 600

\* Mutant: a failed jobs request is issued again.
GetJobInformation_Retry ==
    /\ pc = "fetch"
    /\ Len(steps) < 4
    /\ steps' = Append(steps, "fetch")
    /\ \/ /\ r_jobs' = -1
          /\ stdout' = Append(stdout, <<"Script is not working", "">>)
          /\ result' = None
          /\ pc' = "fetch"
       \/ \E r \in JobsResponses :
            /\ r_jobs' = r.status
            /\ IF RaisesForStatus(r.status)
               THEN /\ stdout' = Append(stdout, <<"Script is not working", "">>)
                    /\ result' = None
                    /\ pc' = "fetch"
               ELSE /\ stdout' = Append(stdout, <<"200", "">>)
                    /\ result' = r.body
                    /\ pc' = "check"
    /\ UNCHANGED <<exitCode, stderr, token, jobs, consolidated_jobs, csv_file, html_file, r_login>>

\* result = get_job_information(token, args.cluster)
GetJobInformation ==
    /\ pc = "fetch"
    /\ steps' = Append(steps, "fetch")
    /\ pc' = "check"
    /\ \/ /\ r_jobs' = -1
          /\ stdout' = Append(stdout, <<"Script is not working", "">>)
          /\ result' = None
       \/ \E r \in JobsResponses :
            /\ r_jobs' = r.status
            /\ IF RaisesForStatus(r.status)
               THEN /\ stdout' = Append(stdout, <<"Script is not working", "">>)
                    /\ result' = None
               ELSE /\ stdout' = Append(stdout, <<"200", "">>)
                    /\ result' = r.body
    /\ UNCHANGED <<exitCode, stderr, token, jobs, consolidated_jobs, csv_file, html_file, r_login>>

\* bool(result): None, [] and {} are false.
Truthy(v) ==
    CASE v.t = "None" -> FALSE
      [] v.t = "list" -> v.items # <<>>
      [] OTHER -> v.keys # {}

\* result if isinstance(result, list) else result.get('jobs', [])
ExtractJobs(v) ==
    IF v.t = "list" THEN v.items
    ELSE IF "jobs" \in v.keys THEN v.items ELSE <<>>

\* if result: ... if not jobs: print; return ... else: print
CheckResult ==
    /\ pc = "check"
    /\ IF Truthy(result)
       THEN /\ jobs' = ExtractJobs(result)
            /\ IF jobs' = <<>>
               THEN /\ stdout' = Append(stdout, <<"No jobs found in the API response.", "">>)
                    /\ pc' = "exited"
                    /\ exitCode' = 0
               ELSE /\ pc' = "consolidate"
                    /\ UNCHANGED <<stdout, exitCode>>
       ELSE /\ stdout' = Append(stdout, <<"Script is not working", "">>)
            /\ pc' = "exited"
            /\ exitCode' = 0
            /\ UNCHANGED jobs
    /\ UNCHANGED <<stderr, token, result, consolidated_jobs, csv_file, html_file, r_login, r_jobs, steps>>

\* consolidated_jobs = consolidate_jobs(jobs); print; print(json.dumps(...))
Consolidate ==
    /\ pc = "consolidate"
    /\ steps' = Append(steps, "aggregate")
    /\ LET c == consolidate_jobs(jobs)
       IN  IF c.raised # "none"
           THEN /\ stdout' = stdout \o c.warnings
                /\ Uncaught(c.raised)
                /\ UNCHANGED consolidated_jobs
           ELSE /\ stdout' = stdout \o c.warnings
                                \o << <<"Consolidated Jobs:", "">>, <<"json", "">> >>
                /\ consolidated_jobs' = c.rows
                /\ pc' = "save_csv"
                /\ UNCHANGED <<exitCode, stderr>>
    /\ UNCHANGED <<token, result, jobs, csv_file, html_file, r_login, r_jobs>>

\* pd.DataFrame(data).to_csv(filepath, index=False): the header, then one
\* line per row.
ToCsv(data) ==
    [header |-> <<"user", "totalRequestedGPUs", "jobCount">>,
     rows |-> [i \in 1..Len(data) |->
                 <<data[i].user, data[i].totalRequestedGPUs, data[i].jobCount>>]]

\* The figure's traces: labels/x = df['user'], values/y = df['totalRequestedGPUs']
\* and df['jobCount'].
ToFigure(data) ==
    [labels |-> [i \in 1..Len(data) |-> data[i].user],
     gpus |-> [i \in 1..Len(data) |-> data[i].totalRequestedGPUs],
     counts |-> [i \in 1..Len(data) |-> data[i].jobCount]]

\* Mutant: a failed CSV write is reported and main goes on.
SaveToCsv_Swallow ==
    /\ pc = "save_csv"
    /\ steps' = Append(steps, "csv")
    /\ pc' = "create_html"
    /\ \/ /\ csv_file' = [exists |-> TRUE, complete |-> TRUE,
                          content |-> ToCsv(consolidated_jobs)]
          /\ stdout' = Append(stdout, <<"Audit data saved to ", "csv">>)
       \/ /\ csv_file' \in {csv_file, [NoCsv EXCEPT !.exists = TRUE]}
          /\ stdout' = Append(stdout, <<"Could not save ", "csv">>)
    /\ UNCHANGED <<exitCode, stderr, token, result, jobs, consolidated_jobs,
                   html_file, r_login, r_jobs>>

\* save_to_csv(consolidated_jobs, args.cluster): os.makedirs or to_csv may
\* raise OSError (the latter can leave an incomplete file); nothing catches it.
SaveToCsv ==
    /\ pc = "save_csv"
    /\ steps' = Append(steps, "csv")
    /\ \/ /\ csv_file' = [exists |-> TRUE, complete |-> TRUE,
                          content |-> ToCsv(consolidated_jobs)]
          /\ stdout' = Append(stdout, <<"Audit data saved to ", "csv">>)
          /\ pc' = "create_html"
          /\ UNCHANGED <<exitCode, stderr>>
       \/ /\ csv_file' \in {csv_file, [NoCsv EXCEPT !.exists = TRUE]}
          /\ Uncaught("OSError")
          /\ UNCHANGED stdout
    /\ UNCHANGED <<token, result, jobs, consolidated_jobs, html_file, r_login, r_jobs>>

\* create_html_graph(consolidated_jobs, args.cluster)
CreateHtmlGraph ==
    /\ pc = "create_html"
    /\ steps' = Append(steps, "html")
    /\ \/ /\ html_file' = [exists |-> TRUE, complete |-> TRUE,
                           content |-> ToFigure(consolidated_jobs)]
          /\ stdout' = Append(stdout, <<"HTML graph saved to ", "html">>)
          /\ pc' = "finish"
          /\ UNCHANGED <<exitCode, stderr>>
       \/ /\ html_file' \in {html_file, [NoHtml EXCEPT !.exists = TRUE]}
          /\ Uncaught("OSError")
          /\ UNCHANGED stdout
    /\ UNCHANGED <<token, result, jobs, consolidated_jobs, csv_file, r_login, r_jobs>>

\* print("Script is working"); main returns.
Finish ==
    /\ pc = "finish"
    /\ stdout' = Append(stdout, <<"Script is working", "">>)
    /\ pc' = "exited"
    /\ exitCode' = 0
    /\ UNCHANGED <<stderr, token, result, jobs, consolidated_jobs, csv_file,
                   html_file, r_login, r_jobs, steps>>

Next ==
    \/ Login
    \/ GetJobInformation
    \/ CheckResult
    \/ Consolidate
    \/ SaveToCsv
    \/ CreateHtmlGraph
    \/ Finish

Spec == Init /\ [][Next]_vars

----------------------------------------------------------------------------
\* Vocabulary of the properties.

\* consolidate_jobs has just returned: main holds its rows and goes on to the
\* writers (jobs and consolidated_jobs do not change afterwards).
Aggregated == pc = "save_csv"

\* The user a job record counts for, and the number its GPU value stands for
\* (0.0 for a string that is no number).
UserOfJob(job) == IF job.user = Absent THEN "Unknown" ELSE job.user
NumericValues == {"0", "1", "1.125", "-1", "1e308", "-1e308"}
IsInvalid(job) ==
    /\ job.totalRequestedGPUs.t # Absent
    /\ ~(job.totalRequestedGPUs.t \in {"num", "str"}
           /\ job.totalRequestedGPUs.v \in NumericValues)
ParsedValue(job) ==
    IF job.totalRequestedGPUs.t = Absent \/ IsInvalid(job) THEN Fin(0)
    ELSE FloatOf(job.totalRequestedGPUs)

JobsOf(js, u) == SelectSeq(js, LAMBDA j : UserOfJob(j) = u)

\* The float sum 0.0 + v1 + ... + vn of the first n jobs' values.
RECURSIVE SumOf(_, _)
SumOf(js, n) ==
    IF n = 0 THEN Fin(0) ELSE FAdd(SumOf(js, n - 1), ParsedValue(js[n]))

RECURSIVE SumCounts(_, _)
SumCounts(rows, n) ==
    IF n = 0 THEN 0 ELSE SumCounts(rows, n - 1) + rows[n].jobCount

RowsOfUser(rows, u) == { i \in 1..Len(rows) : rows[i].user = u }

Printed(text) == \E i \in 1..Len(stdout) : stdout[i][1] = text

CountPrinted(text) == Cardinality({ i \in 1..Len(stdout) : stdout[i][1] = text })

\* x >= 0 for a float.
NonNegative(x) ==
    CASE x.k \in {"fin", "dec"} -> x.n >= 0
      [] x.k \in {"big", "inf"} -> x.n > 0
      [] OTHER -> FALSE

----------------------------------------------------------------------------
\* C1: whenever consolidate_jobs returns, there is exactly one row per distinct
\* user of the job list; the row's jobCount is the number of that user's jobs,
\* its totalRequestedGPUs is the sum of their parsed GPU values (added in list
\* order) rounded to 2 decimals, and the jobCounts add up to the number of jobs.
C1_OneRowPerUser ==
    Aggregated =>
      /\ \A j \in 1..Len(jobs) :
           Cardinality(RowsOfUser(consolidated_jobs, UserOfJob(jobs[j]))) = 1
      /\ \A i \in 1..Len(consolidated_jobs) :
           LET row == consolidated_jobs[i]
               mine == JobsOf(jobs, row.user)
           IN  /\ Len(mine) >= 1
               /\ row.jobCount = Len(mine)
               /\ row.totalRequestedGPUs = Round2(SumOf(mine, Len(mine)))
      /\ SumCounts(consolidated_jobs, Len(consolidated_jobs)) = Len(jobs)

\* Two users; A has the jobs 1 and "1.125": 2.125 is reported as 2.12, count 2.
C1_Witness ==
    /\ Aggregated
    /\ Len(jobs) = 3
    /\ Len(consolidated_jobs) = 2
    /\ \E i \in 1..2 :
         /\ consolidated_jobs[i].user = "A"
         /\ consolidated_jobs[i].jobCount = 2
         /\ consolidated_jobs[i].totalRequestedGPUs = [k |-> "dec", n |-> 212]

\* C2: whatever value a job carries in totalRequestedGPUs, aggregation does not
\* raise: once the aggregation step has started the run is not ended by an
\* exception of consolidate_jobs, and one warning was printed per invalid value.
C2_InvalidNeverRaises ==
    Len(steps) >= 3 =>
      /\ stderr # "TypeError"
      /\ CountPrinted("Warning: Invalid GPU value")
           = Cardinality({ j \in 1..Len(jobs) : IsInvalid(jobs[j]) })

\* C8: a job without a user field is counted in the single row "Unknown",
\* together with the jobs whose user is literally "Unknown"; no row has the
\* absent or the empty user.
C8_MissingUserIsUnknown ==
    Aggregated =>
      /\ \A i \in 1..Len(consolidated_jobs) :
           consolidated_jobs[i].user \notin {Absent, ""}
      /\ (\E j \in 1..Len(jobs) : jobs[j].user = Absent) =>
           /\ Cardinality(RowsOfUser(consolidated_jobs, "Unknown")) = 1
           /\ \A i \in RowsOfUser(consolidated_jobs, "Unknown") :
                LET mine == SelectSeq(jobs, LAMBDA j : j.user \in {Absent, "Unknown"})
                IN  /\ consolidated_jobs[i].jobCount = Len(mine)
                    /\ consolidated_jobs[i].totalRequestedGPUs
                         = Round2(SumOf(mine, Len(mine)))

\* A job without user and a job of "Unknown" share one row of count 2.
C8_Witness ==
    /\ Aggregated
    /\ \E j \in 1..Len(jobs) : jobs[j].user = Absent
    /\ \E j \in 1..Len(jobs) : jobs[j].user = "Unknown"
    /\ \E i \in 1..Len(consolidated_jobs) :
         /\ consolidated_jobs[i].user = "Unknown"
         /\ consolidated_jobs[i].jobCount = 2
         /\ consolidated_jobs[i].totalRequestedGPUs = [k |-> "dec", n |-> 212]

\* C6 as stated: every row has a non-negative totalRequestedGPUs and a
\* non-negative jobCount, also when a GPU value parses to a negative number.
C6_RowsNonNegative ==
    Aggregated =>
      \A i \in 1..Len(consolidated_jobs) :
        /\ NonNegative(consolidated_jobs[i].totalRequestedGPUs)
        /\ consolidated_jobs[i].jobCount >= 0

\* C6 amended: every row has a jobCount of at least 1, and a non-negative
\* totalRequestedGPUs whenever every parsed GPU value of its user's jobs is
\* >= 0 (an invalid value counts as 0.0).
C6_NonNegativeUnlessNegativeInput ==
    Aggregated =>
      \A i \in 1..Len(consolidated_jobs) :
        LET mine == JobsOf(jobs, consolidated_jobs[i].user)
        IN  /\ consolidated_jobs[i].jobCount >= 1
            /\ (\A j \in 1..Len(mine) : NonNegative(ParsedValue(mine[j])))
                 => NonNegative(consolidated_jobs[i].totalRequestedGPUs)

\* A user with an invalid value and valid ones: the row's total is positive.
C6_Witness ==
    /\ Aggregated
    /\ \E i \in 1..Len(consolidated_jobs) :
         LET mine == JobsOf(jobs, consolidated_jobs[i].user)
         IN  /\ Len(mine) = 3
             /\ \E j \in 1..3 : IsInvalid(mine[j])
             /\ \A j \in 1..3 : NonNegative(ParsedValue(mine[j]))
             /\ consolidated_jobs[i].totalRequestedGPUs = [k |-> "dec", n |-> 212]

\* The job list in another order.
Reorderings(js) ==
    { [i \in 1..Len(js) |-> js[p[i]]] : p \in Permutations(1..Len(js)) }

SameUsersAndCounts(rows, other) ==
    /\ { rows[i].user : i \in 1..Len(rows) } = { other[i].user : i \in 1..Len(other) }
    /\ \A i \in 1..Len(rows) : \A k \in 1..Len(other) :
         rows[i].user = other[k].user => rows[i].jobCount = other[k].jobCount

\* C7 as stated: for every reordering of the job list consolidate_jobs gives
\* the same users and, for each user, the same totalRequestedGPUs and jobCount.
C7_OrderIndependent ==
    Aggregated =>
      \A p \in Reorderings(jobs) :
        LET other == consolidate_jobs(p).rows
        IN  /\ SameUsersAndCounts(consolidated_jobs, other)
            /\ \A i \in 1..Len(consolidated_jobs) : \A k \in 1..Len(other) :
                 consolidated_jobs[i].user = other[k].user
                   => consolidated_jobs[i].totalRequestedGPUs
                        = other[k].totalRequestedGPUs

\* C7 amended: for every reordering consolidate_jobs gives the same users and
\* the same jobCount for each user; the user's totalRequestedGPUs is the same
\* too when the float sum of its values is exact (here: every value of the
\* user is a small multiple of 1/8).
C7_OrderIndependentWhenExact ==
    Aggregated =>
      \A p \in Reorderings(jobs) :
        LET c == consolidate_jobs(p)
            other == c.rows
        IN  /\ c.raised = "none"
            /\ SameUsersAndCounts(consolidated_jobs, other)
            /\ \A i \in 1..Len(consolidated_jobs) : \A k \in 1..Len(other) :
                 LET mine == JobsOf(jobs, consolidated_jobs[i].user)
                 IN  /\ consolidated_jobs[i].user = other[k].user
                     /\ \A j \in 1..Len(mine) : ParsedValue(mine[j]).k = "fin"
                     => consolidated_jobs[i].totalRequestedGPUs
                          = other[k].totalRequestedGPUs

\* Three jobs of two users with three different exact values.
C7_Witness ==
    /\ Aggregated
    /\ Len(jobs) = 3
    /\ Len(consolidated_jobs) = 2
    /\ \A j \in 1..3 : ParsedValue(jobs[j]).k = "fin"
    /\ jobs[1] # jobs[2] /\ jobs[2] # jobs[3] /\ jobs[1] # jobs[3]
    /\ ParsedValue(jobs[1]) # ParsedValue(jobs[2])
    /\ UserOfJob(jobs[1]) = UserOfJob(jobs[2])

----------------------------------------------------------------------------
NoFiles == ~csv_file.exists /\ ~html_file.exists

\* C3: when the jobs endpoint answers successfully with an empty job list, as
\* a bare [] or as {"jobs": []}, main prints the "No jobs found" message,
\* writes no file and exits with code 0.
C3_EmptyListNoJobsMessage ==
    (/\ pc = "exited"
     /\ r_jobs \in 200..299
     /\ result \in {JList(<<>>), JObject({"jobs"}, <<>>)})
      => /\ Printed("No jobs found in the API response.")
         /\ NoFiles
         /\ exitCode = 0

\* C4: when the token endpoint answers with a non-2xx status, the response
\* body is printed, the process has ended with exit code 1, and nothing else
\* happened: no jobs request, no aggregation, no file.
C4_LoginFailureExits1 ==
    (r_login.status > 0 /\ r_login.status \notin 200..299)
      => /\ pc = "exited"
         /\ exitCode = 1
         /\ stdout = << <<"Login error: ", r_login.text>> >>
         /\ steps = <<"authenticate">>
         /\ r_jobs = 0
         /\ result = None
         /\ consolidated_jobs = <<>>
         /\ NoFiles

\* The token endpoint answered 401.
C4_Witness ==
    /\ r_login.status = 401
    /\ pc = "exited"
    /\ exitCode = 1

\* C5 as stated: when the jobs request fails (network error or non-2xx
\* status), get_job_information has logged a failure and returned nothing,
\* and main ends like for an empty job list: the "No jobs found" message,
\* no file, exit code 0.
C5_FetchFailureNoJobsMessage ==
    (Len(steps) >= 2 /\ (r_jobs = -1 \/ r_jobs \notin 200..299))
      => /\ result = None
         /\ Printed("Script is not working")
         /\ pc = "exited" =>
              /\ Printed("No jobs found in the API response.")
              /\ NoFiles
              /\ exitCode = 0

\* C5 amended: when the jobs request fails (network error or a 4xx/5xx
\* status), get_job_information prints "Script is not working" and returns
\* None; main then prints "Script is not working" again, not the "No jobs
\* found" message, writes no file and exits with code 0.
C5_FetchFailureNotWorking ==
    (Len(steps) >= 2 /\ (r_jobs = -1 \/ r_jobs \in 400..599))
      => /\ result = None
         /\ stdout[1] = <<"Script is not working", "">>
         /\ pc \in {"check", "exited"}
         /\ pc = "exited" =>
              /\ stdout = << <<"Script is not working", "">>,
                             <<"Script is not working", "">> >>
              /\ steps = <<"authenticate", "fetch">>
              /\ NoFiles
              /\ exitCode = 0
              /\ stderr = "none"

\* The jobs endpoint answered 404 and the process has ended.
C5_Witness ==
    /\ r_jobs = 404
    /\ pc = "exited"
    /\ exitCode = 0

Order == <<"authenticate", "fetch", "aggregate", "csv", "html">>

\* C9: the steps of a run are a prefix of authenticate, fetch, aggregate,
\* CSV, HTML, each started at most once and only after the one before it
\* succeeded; one token request, at most one jobs request, and a file exists
\* only after the aggregation returned.
C9_FixedOrder ==
    /\ Len(steps) <= Len(Order)
    /\ \A i \in 1..Len(steps) : steps[i] = Order[i]
    /\ pc # "login" => Len(steps) >= 1 /\ r_login # NoResponse
    /\ Len(steps) >= 2 => token = "tok" /\ r_login.status \in 200..299
    /\ Len(steps) < 2 => r_jobs = 0
    /\ Len(steps) >= 3 => result # None /\ jobs # <<>> /\ jobs = result.items
    /\ Len(steps) >= 4 => stderr # "TypeError" /\ consolidated_jobs # <<>>
    /\ Len(steps) < 4 => NoFiles
    /\ Len(steps) >= 5 => csv_file.complete
    /\ Len(steps) < 5 => ~html_file.exists

\* A run that went through the five steps and ended with code 0.
C9_Witness ==
    /\ pc = "exited"
    /\ exitCode = 0
    /\ steps = Order
    /\ Len(jobs) = MaxJobs

\* C10: a failing writer ends the process with an error: after a failed CSV
\* write there is no HTML file and no "Script is working"; after a failed
\* HTML write the CSV file is still there; "Script is working" is printed
\* only with both files written from the same aggregate list.
C10_WriterFailureIsFatal ==
    /\ (pc = "exited" /\ Len(steps) = 4)
         => /\ exitCode = 1
            /\ stderr = "OSError"
            /\ ~csv_file.complete
            /\ ~html_file.exists
            /\ ~Printed("Script is working")
    /\ (Len(steps) = 4 /\ ~csv_file.complete) => pc = "exited"
    /\ (Len(steps) = 5 /\ ~html_file.complete)
         => /\ pc = "exited"
            /\ exitCode = 1
            /\ stderr = "OSError"
            /\ csv_file.complete
            /\ Len(csv_file.content.rows) = Len(consolidated_jobs)
            /\ ~Printed("Script is working")
    /\ Printed("Script is working")
         => /\ csv_file.complete
            /\ html_file.complete
            /\ Len(csv_file.content.rows) = Len(consolidated_jobs)
            /\ Len(html_file.content.labels) = Len(consolidated_jobs)
            /\ \A i \in 1..Len(consolidated_jobs) :
                 /\ csv_file.content.rows[i]
                      = <<consolidated_jobs[i].user,
                          consolidated_jobs[i].totalRequestedGPUs,
                          consolidated_jobs[i].jobCount>>
                 /\ csv_file.content.rows[i]
                      = <<html_file.content.labels[i],
                          html_file.content.gpus[i],
                          html_file.content.counts[i]>>

\* The HTML write failed after the CSV file was written.
C10_Witness ==
    /\ pc = "exited"
    /\ stderr = "OSError"
    /\ csv_file.complete
    /\ ~html_file.complete
    /\ Len(consolidated_jobs) = 2

====
